---- MODULE Spec2Model ----
(***************************************************************************)
(* A model of mythcommflagwrapper (src/src/mythcommflagwrapper/__main__.py) *)
(* as a state machine: main() validates the arguments, constructs a        *)
(* RecordingJob or a Recording, calls get_skiplist() and set_skiplist(),   *)
(* and the RecordingJob finalizer (__del__) runs when the process ends.    *)
(*                                                                         *)
(* The collaborators (MythTV bindings, comskip, mythutil, the file system) *)
(* are the environment: every outcome they can hand back to the code is    *)
(* drawn with \E in the action that consumes it.                           *)
(***************************************************************************)
EXTENDS Integers, Sequences, FiniteSets, TLC

VARIABLES
    args,          \* truthiness of the parsed command line arguments
    pc,            \* position of main(): "main", "construct", "get", "set", "done", "raised"
    kind,          \* class of the recording object: "none", "job", "direct"
    job,           \* self._job: [present, status, comment]
    statusWrites,  \* every Job.update() call so far, in order: [status, comment]
    commmethod,    \* self._commmethod
    skiplist,      \* the list get_skiplist() returned to main()
    returned,      \* TRUE once get_skiplist() has returned a list to main()
    calls,         \* every collaborator invocation so far, in order
    cutlist,       \* the cut-list artifact comskip left in its output directory
    artifactRead,  \* TRUE once the cut-list artifact has been opened and read
    commflagged,   \* the recording's commflagged field in the metadata store
    exc,           \* the exception main() ended with ("" when none)
    torndown,      \* TRUE once RecordingJob.__del__ has run
    tmpdir,        \* call_comskip's temporary directory: "none", "exists", "removed"
    failing,       \* the statuses whose Job.update() call raises in this run
    mp3lines,      \* the lines of mp3splt.log read by call_silence_detect
    silence,       \* what call_silence_detect returned: [done, skiplist]
    runs,          \* two concurrent runs on one recording: [pc, skiplist, ...] each
    journal        \* their persistence calls, in the order they were made

vars == <<args, pc, kind, job, statusWrites, commmethod, skiplist, returned,
          calls, cutlist, artifactRead, commflagged, exc, torndown, tmpdir,
          failing, mp3lines, silence, runs, journal>>

----------------------------------------------------------------------------
(* Bounds of the model *)

\* exit codes of a child process range over -MaxExitCode..MaxExitCode
\* (a negative return code is a child killed by a signal)
MaxExitCode == 2
\* largest commmethod value a channel record holds
MaxCommMethod == 1
\* largest number of lines of a cut-list artifact
MaxLines == 2
\* largest number of lines of a silence splitter log
MaxCandidates == 3

----------------------------------------------------------------------------
(* Program constants *)

COMM_DETECT_COMMFREE == -2
COMM_DETECT_UNINIT == -1
COMM_DETECT_OFF == 0

STARTING == "STARTING"
RUNNING == "RUNNING"
FINISHED == "FINISHED"
ERRORED == "ERRORED"

----------------------------------------------------------------------------
(* The environment's input domains *)

ExitCodes == (0 - MaxExitCode)..MaxExitCode

\* What BaseRecording._run can hand back: a completed process with its return
\* code, a subprocess.SubprocessError, or a KeyboardInterrupt delivered while
\* the child runs (a BaseException, which no "except Exception" catches).
ProcOutcomes ==
    {[rc |-> c, raised |-> ""] : c \in ExitCodes}
    \cup {[rc |-> 0, raised |-> e] : e \in {"SubprocessError", "KeyboardInterrupt"}}

CommMethods == COMM_DETECT_COMMFREE..MaxCommMethod

\* How the lookups of _get_recording can end
Resolutions == {"ok", "RecordedFails", "StorageFails"}

Digits == {"0", "1", "2", "3", "4", "5", "6", "7", "8", "9"}
Whitespace == {" ", "\t", "\n"}

\* Lines a cut-list artifact is made of, as sequences of characters
CutlistLines ==
    { <<"1", " ", "2">>,                 \* a frame pair
      <<"3", "0", "\t", " ", "4", "\n">>,  \* a pair, several digits and blanks
      <<"7", " ", "8", "x">>,            \* a pair followed by other text
      <<"F", " ", "9", " ", "5">>,       \* header text holding numbers
      <<" ", "1", " ", "2">>,            \* a pair after leading whitespace
      <<"5", "\n">> }                    \* a single number

RECURSIVE SeqsUpTo(_, _)
SeqsUpTo(S, n) ==
    IF n = 0 THEN {<<>>}
    ELSE LET shorter == SeqsUpTo(S, n - 1)
         IN shorter \cup {Append(s, x) : s \in shorter, x \in S}

\* The artifact after the detector ran: missing, or a file of up to MaxLines lines
Artifacts ==
    {[exists |-> FALSE, lines |-> <<>>]}
    \cup {[exists |-> TRUE, lines |-> ls] : ls \in SeqsUpTo(CutlistLines, MaxLines)}

NoArtifact == [exists |-> FALSE, lines |-> <<>>]

----------------------------------------------------------------------------
(* Helpers *)

\* One collaborator invocation, as recorded in calls
Call(name, op, payload, rc, raised) ==
    [name |-> name, op |-> op, payload |-> payload, rc |-> rc, raised |-> raised]

\* The invocations of the collaborator called name, in order
CallsOf(name) == SelectSeq(calls, LAMBDA c : c.name = name)

\* "except Exception" catches everything but the BaseException-only kinds
IsException(e) == e \notin {"", "KeyboardInterrupt"}

\* What a Job.update() call that fails raises
UpdateError == "MythDBError"

\* Job.update(status=..., comment=...): the job record after the write
JobUpdate(j, status, comment) == [j EXCEPT !.status = status, !.comment = comment]

WriteOf(j) == [status |-> j.status, comment |-> j.comment]

----------------------------------------------------------------------------
(* BaseRecording *)

\* _get_recording whose except branch stores COMM_DETECT_OFF
get_recording_default_off(res, chanOk, cm) ==
    LET db == Call("MythDB", "connect", <<>>, 0, "")
        rec(e) == Call("Recorded", "lookup", <<>>, 0, e)
        chan == Call("Channel", "lookup", <<>>, 0, IF chanOk THEN "" ELSE "MythError")
        sg(e) == Call("StorageGroup", "lookup", <<>>, 0, e)
        method == IF chanOk THEN cm ELSE COMM_DETECT_OFF
    IN IF res = "RecordedFails"
       THEN [raised |-> "MythError", commmethod |-> COMM_DETECT_UNINIT,
             calls |-> <<db, rec("MythError")>>]
       ELSE IF res = "StorageFails"
       THEN [raised |-> "IndexError", commmethod |-> method,
             calls |-> <<db, rec(""), chan, sg("IndexError")>>]
       ELSE [raised |-> "", commmethod |-> method,
             calls |-> <<db, rec(""), chan, sg("")>>]

\* _get_recording: MythDB(), Recorded(...), Channel(...), getStorageGroup(...)
get_recording(res, chanOk, cm) ==
    LET db == Call("MythDB", "connect", <<>>, 0, "")
        rec(e) == Call("Recorded", "lookup", <<>>, 0, e)
        chan == Call("Channel", "lookup", <<>>, 0, IF chanOk THEN "" ELSE "MythError")
        sg(e) == Call("StorageGroup", "lookup", <<>>, 0, e)
        method == IF chanOk THEN cm ELSE COMM_DETECT_UNINIT
    IN IF res = "RecordedFails"
       THEN [raised |-> "MythError", commmethod |-> COMM_DETECT_UNINIT,
             calls |-> <<db, rec("MythError")>>]
       ELSE IF res = "StorageFails"
       THEN [raised |-> "IndexError", commmethod |-> method,
             calls |-> <<db, rec(""), chan, sg("IndexError")>>]
       ELSE [raised |-> "", commmethod |-> method,
             calls |-> <<db, rec(""), chan, sg("")>>]

\* Length of the longest run of characters of class cls in s from index i on
RECURSIVE SpanLen(_, _, _)
SpanLen(s, i, cls) ==
    IF i <= Len(s) /\ s[i] \in cls THEN 1 + SpanLen(s, i + 1, cls) ELSE 0

\* skiplist_re.match(line) for (\d+)\s+(\d+): anchored at the start of the
\* line only; each greedy run is maximal, and no shorter run can match
skiplist_re(line) ==
    LET d1 == SpanLen(line, 1, Digits)
        w == SpanLen(line, d1 + 1, Whitespace)
        d2 == SpanLen(line, d1 + w + 1, Digits)
    IN IF d1 >= 1 /\ w >= 1 /\ d2 >= 1
       THEN [matched |-> TRUE,
             g1 |-> SubSeq(line, 1, d1),
             g2 |-> SubSeq(line, d1 + w + 1, d1 + w + d2)]
       ELSE [matched |-> FALSE, g1 |-> <<>>, g2 |-> <<>>]

\* The token without its separator
Token_glued(m) == m.g1 \o m.g2

\* f"{m.group(1)}-{m.group(2)}"
Token(m) == m.g1 \o <<"-">> \o m.g2

RECURSIVE ParseLines(_)
ParseLines(lines) ==
    IF lines = <<>> THEN <<>>
    ELSE LET m == skiplist_re(Head(lines))
         IN (IF m.matched THEN <<Token(m)>> ELSE <<>>) \o ParseLines(Tail(lines))

\* _parse_cutlist_file that takes a missing artifact for an empty one
parse_cutlist_file_lenient(file) ==
    [raised |-> "", skiplist |-> ParseLines(file.lines), read |-> file.exists]

\* _parse_cutlist_file: open() raises when the artifact does not exist
parse_cutlist_file(file) ==
    IF ~file.exists
    THEN [raised |-> "FileNotFoundError", skiplist |-> <<>>, read |-> FALSE]
    ELSE [raised |-> "", skiplist |-> ParseLines(file.lines), read |-> TRUE]

\* call_comskip with the return code test of the older wrapper scripts
\* (returncode > 1 fails): a negative return code falls through to the parser
call_comskip_gt1(proc, file) ==
    IF proc.raised # ""
    THEN [raised |-> proc.raised, skiplist |-> <<>>, read |-> FALSE]
    ELSE IF proc.rc > 1
    THEN [raised |-> "ComskipError", skiplist |-> <<>>, read |-> FALSE]
    ELSE IF proc.rc = 1
    THEN [raised |-> "", skiplist |-> <<>>, read |-> FALSE]
    ELSE parse_cutlist_file(file)

\* call_comskip with the failure test off by one (returncode > 2 fails)
call_comskip_gt2(proc, file) ==
    IF proc.raised # ""
    THEN [raised |-> proc.raised, skiplist |-> <<>>, read |-> FALSE]
    ELSE IF proc.rc = 1
    THEN [raised |-> "", skiplist |-> <<>>, read |-> FALSE]
    ELSE IF proc.rc > 2 \/ proc.rc < 0
    THEN [raised |-> "ComskipError", skiplist |-> <<>>, read |-> FALSE]
    ELSE parse_cutlist_file(file)

\* call_comskip, given what _run handed back and the artifact in the output
\* directory; the "comskip" invocation itself is logged by the caller
call_comskip(proc, file) ==
    IF proc.raised # ""
    THEN [raised |-> proc.raised, skiplist |-> <<>>, read |-> FALSE]
    ELSE IF proc.rc = 1
    THEN [raised |-> "", skiplist |-> <<>>, read |-> FALSE]
    ELSE IF proc.rc # 0
    THEN [raised |-> "ComskipError", skiplist |-> <<>>, read |-> FALSE]
    ELSE parse_cutlist_file(file)

\* How control leaves the "with TemporaryDirectory()" block of call_comskip:
\* by an exception, by the return for return code 1, or at its end
ExitPath(proc, r) ==
    IF r.raised # "" THEN "raise" ELSE IF proc.rc = 1 THEN "return" ELSE "end"

\* A directory removed by a statement at the end of the block only
TemporaryDirectory_exit_at_end(path) == IF path = "end" THEN "removed" ELSE "exists"

\* TemporaryDirectory.__exit__: the directory is removed however the block
\* is left
TemporaryDirectory_exit(path) == "removed"

\* The policy gate testing COMM_DETECT_OFF alone
SkipsDetection_off_only(cm) == cm = COMM_DETECT_OFF

\* The policy gate of BaseRecording.get_skiplist
SkipsDetection(cm) == cm \in {COMM_DETECT_COMMFREE, COMM_DETECT_OFF}

\* A get_skiplist that runs the detector a second time when it failed
get_skiplist_retry(cm, proc, file) ==
    IF SkipsDetection(cm)
    THEN [raised |-> "", skiplist |-> <<>>, read |-> FALSE, calls |-> <<>>, ran |-> FALSE]
    ELSE LET r == call_comskip(proc, file)
             c == Call("comskip", "", <<>>, proc.rc, proc.raised)
         IN [raised |-> r.raised, skiplist |-> r.skiplist, read |-> r.read,
             calls |-> IF r.raised = "" THEN <<c>> ELSE <<c, c>>,
             ran |-> TRUE]

\* BaseRecording.get_skiplist: [raised, skiplist, read, calls]
get_skiplist(cm, proc, file) ==
    IF SkipsDetection(cm)
    THEN [raised |-> "", skiplist |-> <<>>, read |-> FALSE, calls |-> <<>>, ran |-> FALSE]
    ELSE LET r == call_comskip(proc, file)
         IN [raised |-> r.raised, skiplist |-> r.skiplist, read |-> r.read,
             calls |-> <<Call("comskip", "", <<>>, proc.rc, proc.raised)>>,
             ran |-> TRUE]

\* The join with a blank for the separator
RECURSIVE Join_blank(_)
Join_blank(toks) ==
    IF toks = <<>> THEN <<>>
    ELSE IF Len(toks) = 1 THEN toks[1]
    ELSE toks[1] \o <<" ">> \o Join_blank(Tail(toks))

\* ",".join(skiplist)
RECURSIVE Join(_)
Join(toks) ==
    IF toks = <<>> THEN <<>>
    ELSE IF Len(toks) = 1 THEN toks[1]
    ELSE toks[1] \o <<",">> \o Join(Tail(toks))

\* The mythutil arguments without the branch for an empty skiplist
SkiplistArgs_always_set(sk) == [op |-> "--setskiplist", payload |-> Join(sk)]

\* The mythutil arguments BaseRecording.set_skiplist builds
SkiplistArgs(sk) ==
    IF sk # <<>>
    THEN [op |-> "--setskiplist", payload |-> Join(sk)]
    ELSE [op |-> "--clearskiplist", payload |-> <<>>]

\* BaseRecording.set_skiplist without the test of mythutil's return code
set_skiplist_unchecked(sk, proc, updOk) ==
    LET a == SkiplistArgs(sk)
        mythutil == Call("mythutil", a.op, a.payload, proc.rc, proc.raised)
        upd(e) == Call("Recorded", "update", <<>>, 0, e)
    IN IF proc.raised # ""
       THEN [raised |-> proc.raised, calls |-> <<mythutil>>, flagged |-> FALSE]
       ELSE IF ~updOk
       THEN [raised |-> "MythError", calls |-> <<mythutil, upd("MythError")>>,
             flagged |-> FALSE]
       ELSE [raised |-> "", calls |-> <<mythutil, upd("")>>, flagged |-> TRUE]

\* A set_skiplist that updates the commflagged flag before it runs mythutil
set_skiplist_flag_first(sk, proc, updOk) ==
    LET a == SkiplistArgs(sk)
        mythutil == Call("mythutil", a.op, a.payload, proc.rc, proc.raised)
        upd(e) == Call("Recorded", "update", <<>>, 0, e)
    IN IF ~updOk
       THEN [raised |-> "MythError", calls |-> <<upd("MythError")>>, flagged |-> FALSE]
       ELSE IF proc.raised # ""
       THEN [raised |-> proc.raised, calls |-> <<upd(""), mythutil>>, flagged |-> TRUE]
       ELSE IF proc.rc # 0
       THEN [raised |-> "Exception", calls |-> <<upd(""), mythutil>>, flagged |-> TRUE]
       ELSE [raised |-> "", calls |-> <<upd(""), mythutil>>, flagged |-> TRUE]

\* BaseRecording.set_skiplist: [raised, calls, flagged]
set_skiplist(sk, proc, updOk) ==
    LET a == SkiplistArgs(sk)
        mythutil == Call("mythutil", a.op, a.payload, proc.rc, proc.raised)
        upd(e) == Call("Recorded", "update", <<>>, 0, e)
    IN IF proc.raised # ""
       THEN [raised |-> proc.raised, calls |-> <<mythutil>>, flagged |-> FALSE]
       ELSE IF proc.rc # 0
       THEN [raised |-> "Exception", calls |-> <<mythutil>>, flagged |-> FALSE]
       ELSE IF ~updOk
       THEN [raised |-> "MythError", calls |-> <<mythutil, upd("MythError")>>,
             flagged |-> FALSE]
       ELSE [raised |-> "", calls |-> <<mythutil, upd("")>>, flagged |-> TRUE]

----------------------------------------------------------------------------
(* The state machine *)

\* The legacy silence detector is not part of a run of main()
SilenceIdle ==
    /\ mp3lines = <<>>
    /\ silence = [done |-> FALSE, skiplist |-> <<>>]
    /\ runs = <<>>
    /\ journal = <<>>

\* The state main() starts in, whatever the job-tracking store does
InitMain ==
    /\ args \in [jobid : BOOLEAN, chanid : BOOLEAN, starttime : BOOLEAN,
                 loglevelOk : BOOLEAN]
    /\ pc = "main"
    /\ kind = "none"
    /\ job = [present |-> FALSE, status |-> "QUEUED", comment |-> ""]
    /\ statusWrites = <<>>
    /\ commmethod = COMM_DETECT_UNINIT
    /\ skiplist = <<>>
    /\ returned = FALSE
    /\ calls = <<>>
    /\ cutlist = NoArtifact
    /\ artifactRead = FALSE
    /\ commflagged \in BOOLEAN
    /\ exc = ""
    /\ torndown = FALSE
    /\ tmpdir = "none"
    /\ SilenceIdle

\* Every Job.update() call succeeds
Init == InitMain /\ failing = {}

\* The argument test of main(): the arguments are accepted when it is FALSE
ArgsRejected(a) == ~a.jobid /\ ~(a.starttime /\ a.chanid)

\* A main() that builds a RecordingJob whatever its arguments are
Controller_always_job(a) == "job"

\* The class main() instantiates: RecordingJob for --jobid, else Recording
Controller(a) == IF a.jobid THEN "job" ELSE "direct"

\* main(), up to the choice of the class to construct
Main ==
    /\ pc = "main"
    /\ IF ~args.loglevelOk
       THEN pc' = "raised" /\ exc' = "ValueError" /\ kind' = kind
       ELSE IF ArgsRejected(args)
       THEN pc' = "raised" /\ exc' = "RuntimeError" /\ kind' = kind
       ELSE /\ pc' = "construct"
            /\ exc' = exc
            /\ kind' = Controller(args)
    /\ UNCHANGED <<args, job, statusWrites, commmethod, skiplist, returned,
                   calls, cutlist, artifactRead, commflagged, torndown,
                   tmpdir, failing, mp3lines, silence, runs, journal>>

\* RecordingJob.__init__: Job(jobid), update(status=STARTING), _get_recording()
RecordingJob_init ==
    /\ pc = "construct" /\ kind = "job"
    /\ \E jobOk \in BOOLEAN, res \in Resolutions, chanOk \in BOOLEAN, cm \in CommMethods :
         LET lookup == Call("Job", "lookup", <<>>, 0, IF jobOk THEN "" ELSE "MythError")
             started == JobUpdate([job EXCEPT !.present = TRUE], STARTING, job.comment)
             r == get_recording(res, chanOk, cm)
         IN IF ~jobOk
            THEN /\ calls' = Append(calls, lookup)
                 /\ pc' = "raised" /\ exc' = "MythError"
                 /\ UNCHANGED <<job, statusWrites, commmethod>>
            ELSE IF STARTING \in failing
            THEN /\ job' = [job EXCEPT !.present = TRUE]
                 /\ calls' = Append(calls, lookup)
                 /\ pc' = "raised" /\ exc' = UpdateError
                 /\ UNCHANGED <<statusWrites, commmethod>>
            ELSE /\ job' = started
                 /\ statusWrites' = Append(statusWrites, WriteOf(started))
                 /\ calls' = Append(calls, lookup) \o r.calls
                 /\ commmethod' = r.commmethod
                 /\ IF r.raised # ""
                    THEN pc' = "raised" /\ exc' = r.raised
                    ELSE pc' = "get" /\ exc' = exc
    /\ UNCHANGED <<args, kind, skiplist, returned, cutlist, artifactRead,
                   commflagged, torndown, tmpdir, failing, mp3lines, silence,
                   runs, journal>>

\* Recording.__init__: strptime(starttime), _get_recording()
Recording_init ==
    /\ pc = "construct" /\ kind = "direct"
    /\ \E timeOk \in BOOLEAN, res \in Resolutions, chanOk \in BOOLEAN, cm \in CommMethods :
         LET r == get_recording(res, chanOk, cm)
         IN IF ~timeOk
            THEN /\ pc' = "raised" /\ exc' = "ValueError"
                 /\ UNCHANGED <<calls, commmethod>>
            ELSE /\ calls' = calls \o r.calls
                 /\ commmethod' = r.commmethod
                 /\ IF r.raised # ""
                    THEN pc' = "raised" /\ exc' = r.raised
                    ELSE pc' = "get" /\ exc' = exc
    /\ UNCHANGED <<args, kind, job, statusWrites, skiplist, returned, cutlist,
                   artifactRead, commflagged, torndown, tmpdir, failing,
                   mp3lines, silence, runs, journal>>

\* The comment RecordingJob.get_skiplist records when detection raises
ScanFailedComment == "commskip failed"

\* A get_skiplist that leaves the job status as it found it
RunningUpdate_keep(j) == j

\* The first statement of RecordingJob.get_skiplist:
\* update(comment="Scanning", status=Job.RUNNING)
RunningUpdate(j) == JobUpdate(j, RUNNING, "Scanning")

\* RecordingJob.get_skiplist: update(RUNNING), super().get_skiplist(),
\* and on any Exception update(ERRORED) and re-raise
RecordingJob_get_skiplist ==
    /\ pc = "get" /\ kind = "job"
    /\ \E proc \in ProcOutcomes, file \in Artifacts :
         LET running == RunningUpdate(job)
             r == get_skiplist(commmethod, proc, file)
             errored == JobUpdate(running, ERRORED, ScanFailedComment)
         IN IF RUNNING \in failing
            THEN /\ pc' = "raised" /\ exc' = UpdateError
                 /\ UNCHANGED <<job, statusWrites, calls, cutlist, artifactRead,
                                skiplist, returned, tmpdir>>
            ELSE
            /\ calls' = calls \o r.calls
            /\ cutlist' = IF r.ran /\ proc.raised = "" THEN file ELSE cutlist
            /\ artifactRead' = r.read
            /\ tmpdir' = IF r.ran THEN TemporaryDirectory_exit(ExitPath(proc, r))
                          ELSE tmpdir
            /\ IF r.raised = ""
               THEN /\ job' = running
                    /\ statusWrites' = Append(statusWrites, WriteOf(running))
                    /\ skiplist' = r.skiplist
                    /\ returned' = TRUE
                    /\ pc' = "set" /\ exc' = exc
               ELSE /\ IF IsException(r.raised) /\ ERRORED \notin failing
                       THEN /\ job' = errored
                            /\ statusWrites' =
                                 statusWrites \o <<WriteOf(running), WriteOf(errored)>>
                       ELSE /\ job' = running
                            /\ statusWrites' = Append(statusWrites, WriteOf(running))
                    /\ pc' = "raised"
                    /\ exc' = IF IsException(r.raised) /\ ERRORED \in failing
                              THEN UpdateError ELSE r.raised
                    /\ UNCHANGED <<skiplist, returned>>
    /\ UNCHANGED <<args, kind, commmethod, commflagged, torndown, failing,
                   mp3lines, silence, runs, journal>>

\* BaseRecording.get_skiplist called on a Recording
Recording_get_skiplist ==
    /\ pc = "get" /\ kind = "direct"
    /\ \E proc \in ProcOutcomes, file \in Artifacts :
         LET r == get_skiplist(commmethod, proc, file)
         IN /\ calls' = calls \o r.calls
            /\ cutlist' = IF r.ran /\ proc.raised = "" THEN file ELSE cutlist
            /\ artifactRead' = r.read
            /\ tmpdir' = IF r.ran THEN TemporaryDirectory_exit(ExitPath(proc, r))
                          ELSE tmpdir
            /\ IF r.raised = ""
               THEN /\ skiplist' = r.skiplist
                    /\ returned' = TRUE
                    /\ pc' = "set" /\ exc' = exc
               ELSE /\ pc' = "raised" /\ exc' = r.raised
                    /\ UNCHANGED <<skiplist, returned>>
    /\ UNCHANGED <<args, kind, job, statusWrites, commmethod, commflagged, torndown,
                   failing, mp3lines, silence, runs, journal>>

\* f"{len(skiplist)} break(s) found."
BreaksFound(sk) == ToString(Len(sk)) \o " break(s) found."

\* The job record RecordingJob.set_skiplist leaves, given how
\* super().set_skiplist(skiplist) ended
JobAfterSet(j, sk, raised) ==
    IF raised = "" THEN JobUpdate(j, FINISHED, BreaksFound(sk))
    ELSE IF IsException(raised) THEN JobUpdate(j, ERRORED, "mythutil failed")
    ELSE j

\* RecordingJob.set_skiplist: super().set_skiplist(), on any Exception
\* update(ERRORED) and re-raise, otherwise update(FINISHED)
RecordingJob_set_skiplist ==
    /\ pc = "set" /\ kind = "job"
    /\ \E proc \in ProcOutcomes, updOk \in BOOLEAN :
         LET r == set_skiplist(skiplist, proc, updOk)
             after == JobAfterSet(job, skiplist, r.raised)
             blocked == after # job /\ after.status \in failing
         IN /\ calls' = calls \o r.calls
            /\ commflagged' = (commflagged \/ r.flagged)
            /\ job' = IF blocked THEN job ELSE after
            /\ statusWrites' = IF after = job \/ blocked THEN statusWrites
                               ELSE Append(statusWrites, WriteOf(after))
            /\ IF blocked
               THEN pc' = "raised" /\ exc' = UpdateError
               ELSE IF r.raised = ""
               THEN pc' = "done" /\ exc' = exc
               ELSE pc' = "raised" /\ exc' = r.raised
    /\ UNCHANGED <<args, kind, commmethod, skiplist, returned, cutlist,
                   artifactRead, torndown, tmpdir, failing, mp3lines, silence,
                   runs, journal>>

\* BaseRecording.set_skiplist called on a Recording
Recording_set_skiplist ==
    /\ pc = "set" /\ kind = "direct"
    /\ \E proc \in ProcOutcomes, updOk \in BOOLEAN :
         LET r == set_skiplist(skiplist, proc, updOk)
         IN /\ calls' = calls \o r.calls
            /\ commflagged' = (commflagged \/ r.flagged)
            /\ IF r.raised = ""
               THEN pc' = "done" /\ exc' = exc
               ELSE pc' = "raised" /\ exc' = r.raised
    /\ UNCHANGED <<args, kind, job, statusWrites, commmethod, skiplist, returned,
                   cutlist, artifactRead, torndown, tmpdir, failing, mp3lines,
                   silence, runs, journal>>

\* The finalizer test of the older wrapper scripts, which also lets
\* STARTING and RUNNING pass
NeedsSafetyNet_legacy(j) ==
    j.present /\ j.status \notin {STARTING, RUNNING, ERRORED, FINISHED}

\* The test of RecordingJob.__del__: the job exists and is in no terminal state
NeedsSafetyNet(j) == j.present /\ j.status \notin {ERRORED, FINISHED}

\* The finalizer's write of the older wrapper scripts, which marked the job
\* FINISHED
SafetyNetUpdate_finished(j) == JobUpdate(j, FINISHED, "Destructor called")

\* The write RecordingJob.__del__ makes
SafetyNetUpdate(j) == JobUpdate(j, ERRORED, "Destructor called")

\* RecordingJob.__del__, run when the process ends.  When Job(jobid) raised,
\* self._job was never bound: the finalizer's AttributeError is ignored, and
\* so is an exception of its update() call.
RecordingJob_del ==
    /\ pc \in {"done", "raised"} /\ kind = "job" /\ ~torndown
    /\ torndown' = TRUE
    /\ IF NeedsSafetyNet(job) /\ SafetyNetUpdate(job).status \notin failing
       THEN LET forced == SafetyNetUpdate(job)
            IN /\ job' = forced
               /\ statusWrites' = Append(statusWrites, WriteOf(forced))
       ELSE UNCHANGED <<job, statusWrites>>
    /\ UNCHANGED <<args, pc, kind, commmethod, skiplist, returned, calls, cutlist,
                   artifactRead, commflagged, exc, tmpdir, failing, mp3lines,
                   silence, runs, journal>>

Next ==
    \/ Main
    \/ RecordingJob_init
    \/ Recording_init
    \/ RecordingJob_get_skiplist
    \/ Recording_get_skiplist
    \/ RecordingJob_set_skiplist
    \/ Recording_set_skiplist
    \/ RecordingJob_del

Spec == Init /\ [][Next]_vars

\* Any of the status writes may fail
InitUpd == InitMain /\ failing \in SUBSET {STARTING, RUNNING, FINISHED, ERRORED}

\* The runs of main() with a job-tracking store whose updates may raise
SpecUpd == InitUpd /\ [][Next]_vars

----------------------------------------------------------------------------
(* Types *)

TypeOK ==
    /\ pc \in {"main", "construct", "get", "set", "done", "raised", "silence",
              "linit", "lget", "lset"}
    /\ kind \in {"none", "job", "direct", "legacy"}
    /\ tmpdir \in {"none", "exists", "removed"}
    /\ failing \subseteq {STARTING, RUNNING, FINISHED, ERRORED}
    /\ silence.done \in BOOLEAN
    /\ job.status \in {"QUEUED", STARTING, RUNNING, FINISHED, ERRORED}
    /\ commmethod \in CommMethods
    /\ returned \in BOOLEAN /\ artifactRead \in BOOLEAN
    /\ commflagged \in BOOLEAN /\ torndown \in BOOLEAN

----------------------------------------------------------------------------
(* The silence detector of the legacy script, mythcommflag-wrapper.py *)

\* Times are the log's decimal seconds, held exactly in hundredths
Centi == 100
\* A field of a log line that is no run of digits and dots
Word == 0 - 1
\* The gap, in seconds, from which a candidate opens a new group
GAP_THRESHOLD == 400
\* The frame rate the script multiplies seconds by
FPS == 25

\* Lines of mp3splt.log, as their whitespace-separated fields: the
\* candidates (0,10,10), (5,20,15), (500,510,10), (400,400.5,0.5), a heading
\* line and a line of two numbers
SilenceLines ==
    { <<0, 1000, 1000>>, <<500, 2000, 1500>>, <<50000, 51000, 1000>>,
      <<40000, 40050, 50>>, <<Word, 0, 0>>, <<90000, 90030>> }

\* The logs the splitter may leave
SilenceLogs == SeqsUpTo(SilenceLines, MaxCandidates)

\* clre.match(line) for ([0-9.]+)\s+([0-9.]+)\s+([0-9.]+): the line begins
\* with three numeric fields
clre(line) ==
    Len(line) >= 3 /\ line[1] # Word /\ line[2] # Word /\ line[3] # Word

\* [x for x in mp3lines if clre.match(x)]
filtered_mp3lines(lines) == SelectSeq(lines, clre)

\* x placed after every line of the sorted list s whose key is not larger
RECURSIVE InsertByBegin(_, _)
InsertByBegin(s, x) ==
    IF s = <<>> THEN <<x>>
    ELSE IF x[1] < Head(s)[1] THEN <<x>> \o s
    ELSE <<Head(s)>> \o InsertByBegin(Tail(s), x)

\* sorted(filtered_mp3lines, key=float(val.split()[0])): stable, ascending
RECURSIVE sorted_mp3lines(_)
sorted_mp3lines(lines) ==
    IF lines = <<>> THEN <<>>
    ELSE InsertByBegin(sorted_mp3lines(SubSeq(lines, 1, Len(lines) - 1)),
                       lines[Len(lines)])

\* int(x) for x = n / d: truncation toward zero
Trunc(n, d) == IF n >= 0 THEN n \div d ELSE 0 - ((0 - n) \div d)

\* f"{int(start*25+1)}-{int(finish*25-25)}"
SilenceToken(start, finish) ==
    ToString(Trunc(start * FPS + Centi, Centi)) \o "-"
        \o ToString(Trunc(finish * FPS - FPS * Centi, Centi))

\* A merging loop that also emits the accumulator it ends with
RECURSIVE MergeLoop_emit_last(_, _, _, _, _)
MergeLoop_emit_last(cands, i, start, finish, out) ==
    IF i > Len(cands)
    THEN [skiplist |-> Append(out, SilenceToken(start, finish)),
          start |-> start, finish |-> finish]
    ELSE LET begin == cands[i][1]
             end == cands[i][2]
         IN IF begin - start < GAP_THRESHOLD * Centi
            THEN MergeLoop_emit_last(cands, i + 1, start, end, out)
            ELSE MergeLoop_emit_last(cands, i + 1, begin, end,
                                     Append(out, SilenceToken(start, finish)))

\* The merging loop from candidate i on: the skiplist appended to and the
\* accumulator (start, finish) it ends with
RECURSIVE MergeLoop(_, _, _, _, _)
MergeLoop(cands, i, start, finish, out) ==
    IF i > Len(cands)
    THEN [skiplist |-> out, start |-> start, finish |-> finish]
    ELSE LET begin == cands[i][1]
             end == cands[i][2]
         IN IF begin - start < GAP_THRESHOLD * Centi
            THEN MergeLoop(cands, i + 1, start, end, out)
            ELSE MergeLoop(cands, i + 1, begin, end,
                           Append(out, SilenceToken(start, finish)))

\* The part of call_silence_detect after the log was read: filter, sort,
\* merge from the accumulator (0, 0)
SilenceReduce(lines) ==
    MergeLoop(sorted_mp3lines(filtered_mp3lines(lines)), 1, 0, 0, <<>>)

\* The legacy script was started with or without --jobid, its constructor has
\* written STARTING when a job exists, and the splitter's log is any of
\* SilenceLogs
InitSilence ==
    /\ args \in {[jobid |-> j, chanid |-> ~j, starttime |-> ~j, loglevelOk |-> TRUE] :
                    j \in BOOLEAN}
    /\ pc = "silence"
    /\ kind = "legacy"
    /\ job = IF args.jobid
             THEN [present |-> TRUE, status |-> STARTING, comment |-> ""]
             ELSE [present |-> FALSE, status |-> "QUEUED", comment |-> ""]
    /\ statusWrites = IF args.jobid THEN <<WriteOf(job)>> ELSE <<>>
    /\ commmethod = COMM_DETECT_UNINIT
    /\ skiplist = <<>>
    /\ returned = FALSE
    /\ calls = <<>>
    /\ cutlist = NoArtifact
    /\ artifactRead = FALSE
    /\ commflagged = FALSE
    /\ exc = ""
    /\ torndown = FALSE
    /\ tmpdir = "none"
    /\ failing = {}
    /\ mp3lines \in SilenceLogs
    /\ silence = [done |-> FALSE, skiplist |-> <<>>]
    /\ runs = <<>>
    /\ journal = <<>>

\* A chain that runs the splitter whatever the remuxer returned
silence_chain_unchecked(ffmpeg, mp3splt) ==
    LET c1 == Call("ffmpeg", "run", <<>>, ffmpeg.rc, ffmpeg.raised)
        c2 == Call("mp3splt", "run", <<>>, mp3splt.rc, mp3splt.raised)
    IN IF ffmpeg.raised # ""
       THEN [raised |-> ffmpeg.raised, comment |-> "", calls |-> <<c1>>, read |-> FALSE]
       ELSE IF mp3splt.raised # ""
       THEN [raised |-> mp3splt.raised, comment |-> "", calls |-> <<c1, c2>>,
             read |-> FALSE]
       ELSE [raised |-> "", comment |-> "", calls |-> <<c1, c2>>, read |-> TRUE]

\* The "with TemporaryDirectory()" block of call_silence_detect: ffmpeg, then
\* mp3splt, then the log; comment is what the job is told when a step fails
silence_chain(ffmpeg, mp3splt) ==
    LET c1 == Call("ffmpeg", "run", <<>>, ffmpeg.rc, ffmpeg.raised)
        c2 == Call("mp3splt", "run", <<>>, mp3splt.rc, mp3splt.raised)
    IN IF ffmpeg.raised # ""
       THEN [raised |-> ffmpeg.raised, comment |-> "", calls |-> <<c1>>, read |-> FALSE]
       ELSE IF ffmpeg.rc # 0
       THEN [raised |-> "Exception", comment |-> "ffmpeg failed", calls |-> <<c1>>,
             read |-> FALSE]
       ELSE IF mp3splt.raised # ""
       THEN [raised |-> mp3splt.raised, comment |-> "", calls |-> <<c1, c2>>,
             read |-> FALSE]
       ELSE IF mp3splt.rc # 0
       THEN [raised |-> "Exception", comment |-> "mp3splt failed",
             calls |-> <<c1, c2>>, read |-> FALSE]
       ELSE [raised |-> "", comment |-> "", calls |-> <<c1, c2>>, read |-> TRUE]

\* Recording.call_silence_detect of the legacy script: RUNNING, ffmpeg,
\* mp3splt, the log, the merging loop
call_silence_detect ==
    /\ pc = "silence" /\ kind = "legacy"
    /\ \E ffmpeg \in ProcOutcomes, mp3splt \in ProcOutcomes :
         LET running == IF job.present THEN JobUpdate(job, RUNNING, "Scanning") ELSE job
             r == silence_chain(ffmpeg, mp3splt)
             ended == IF job.present /\ r.comment # ""
                      THEN JobUpdate(running, ERRORED, r.comment) ELSE running
         IN /\ tmpdir' = TemporaryDirectory_exit(IF r.raised = "" THEN "end" ELSE "raise")
            /\ calls' = calls \o r.calls
            /\ job' = ended
            /\ statusWrites' =
                 statusWrites \o (IF job.present THEN <<WriteOf(running)>> ELSE <<>>)
                              \o (IF ended # running THEN <<WriteOf(ended)>> ELSE <<>>)
            /\ artifactRead' = r.read
            /\ IF r.raised = ""
               THEN /\ silence' = [done |-> TRUE,
                                   skiplist |-> SilenceReduce(mp3lines).skiplist]
                    /\ pc' = "done" /\ exc' = exc
               ELSE /\ pc' = "raised" /\ exc' = r.raised
                    /\ silence' = silence
    /\ UNCHANGED <<args, kind, commmethod, skiplist, returned, cutlist,
                   commflagged, torndown, failing, mp3lines, runs, journal>>

NextSilence == call_silence_detect

\* The runs of the legacy script's silence detector
SpecSilence == InitSilence /\ [][NextSilence]_vars

----------------------------------------------------------------------------
(* A run of the legacy script, mythcommflag-wrapper.py: one Recording class *)

\* Recording.call_comskip of the legacy script after its RUNNING update:
\* a return code above 1 fails, 1 gives no breaks, anything else (0 or a
\* negative code) goes on to open skiplist.txt
Legacy_call_comskip(proc, file) ==
    IF proc.raised # ""
    THEN [raised |-> proc.raised, comment |-> "", skiplist |-> <<>>, read |-> FALSE]
    ELSE IF proc.rc > 1
    THEN [raised |-> "Exception", comment |-> "Comskip failed", skiplist |-> <<>>,
          read |-> FALSE]
    ELSE IF proc.rc = 1
    THEN [raised |-> "", comment |-> "", skiplist |-> <<>>, read |-> FALSE]
    ELSE IF ~file.exists
    THEN [raised |-> "FileNotFoundError", comment |-> "", skiplist |-> <<>>,
          read |-> FALSE]
    ELSE [raised |-> "", comment |-> "", skiplist |-> ParseLines(file.lines),
          read |-> TRUE]

\* Recording.set_skiplist of the legacy script up to the commflagged update
Legacy_set_skiplist_calls(sk, proc, updOk) ==
    LET a == SkiplistArgs(sk)
        mythutil == Call("mythutil", a.op, a.payload, proc.rc, proc.raised)
        upd(e) == Call("Recorded", "update", <<>>, 0, e)
    IN IF proc.raised # ""
       THEN [raised |-> proc.raised, comment |-> "", calls |-> <<mythutil>>,
             flagged |-> FALSE]
       ELSE IF proc.rc # 0
       THEN [raised |-> "Exception", comment |-> "mythutil failed",
             calls |-> <<mythutil>>, flagged |-> FALSE]
       ELSE IF ~updOk
       THEN [raised |-> "MythError", comment |-> "",
             calls |-> <<mythutil, upd("MythError")>>, flagged |-> FALSE]
       ELSE [raised |-> "", comment |-> "", calls |-> <<mythutil, upd("")>>,
             flagged |-> TRUE]

\* The test of the legacy __del__: a job whose status is none of STARTING,
\* RUNNING, ERRORED, FINISHED
Legacy_NeedsTeardown(j) ==
    j.present /\ j.status \notin {STARTING, RUNNING, ERRORED, FINISHED}

\* The update of the legacy __del__
Legacy_TeardownUpdate(j) == JobUpdate(j, FINISHED, "Destructor called")

\* main() of the legacy script has accepted its arguments
InitLegacy ==
    /\ args \in {a \in [jobid : BOOLEAN, chanid : BOOLEAN, starttime : BOOLEAN,
                         loglevelOk : {TRUE}] : ~ArgsRejected(a)}
    /\ pc = "linit"
    /\ kind = "legacy"
    /\ job = [present |-> FALSE, status |-> "QUEUED", comment |-> ""]
    /\ statusWrites = <<>>
    /\ commmethod = COMM_DETECT_UNINIT
    /\ skiplist = <<>>
    /\ returned = FALSE
    /\ calls = <<>>
    /\ cutlist = NoArtifact
    /\ artifactRead = FALSE
    /\ commflagged \in BOOLEAN
    /\ exc = ""
    /\ torndown = FALSE
    /\ tmpdir = "none"
    /\ failing = {}
    /\ SilenceIdle

\* Recording.__init__ of the legacy script: MythDB(), Job(jobid), Recorded,
\* update(STARTING), getProgram, getStorageGroup
Legacy_init ==
    /\ pc = "linit" /\ kind = "legacy"
    /\ \E jobOk \in BOOLEAN, res \in Resolutions :
         LET db == Call("MythDB", "connect", <<>>, 0, "")
             lookup == Call("Job", "lookup", <<>>, 0, IF jobOk THEN "" ELSE "MythError")
             rec(e) == Call("Recorded", "lookup", <<>>, 0, e)
             sg(e) == Call("StorageGroup", "lookup", <<>>, 0, e)
             first == IF args.jobid THEN <<db, lookup>> ELSE <<db>>
             found == IF args.jobid THEN [job EXCEPT !.present = TRUE] ELSE job
             started == IF args.jobid THEN JobUpdate(found, STARTING, found.comment)
                        ELSE job
             write == IF args.jobid THEN <<WriteOf(started)>> ELSE <<>>
         IN IF args.jobid /\ ~jobOk
            THEN /\ calls' = calls \o first
                 /\ pc' = "raised" /\ exc' = "MythError"
                 /\ UNCHANGED <<job, statusWrites>>
            ELSE IF res = "RecordedFails"
            THEN /\ calls' = calls \o first \o <<rec("MythError")>>
                 /\ job' = found
                 /\ pc' = "raised" /\ exc' = "MythError"
                 /\ UNCHANGED statusWrites
            ELSE IF res = "StorageFails"
            THEN /\ calls' = calls \o first \o <<rec(""), sg("IndexError")>>
                 /\ job' = started
                 /\ statusWrites' = statusWrites \o write
                 /\ pc' = "raised" /\ exc' = "IndexError"
            ELSE /\ calls' = calls \o first \o <<rec(""), sg("")>>
                 /\ job' = started
                 /\ statusWrites' = statusWrites \o write
                 /\ pc' = "lget" /\ exc' = exc
    /\ UNCHANGED <<args, kind, commmethod, skiplist, returned, cutlist, artifactRead,
                   commflagged, torndown, tmpdir, failing, mp3lines, silence,
                   runs, journal>>

\* Recording.get_skiplist of the legacy script: [] for a QUEST callsign,
\* else call_comskip (RUNNING, comskip, skiplist.txt)
Legacy_get_skiplist ==
    /\ pc = "lget" /\ kind = "legacy"
    /\ \E quest \in BOOLEAN, proc \in ProcOutcomes, file \in Artifacts :
         LET running == IF job.present THEN JobUpdate(job, RUNNING, "Scanning") ELSE job
             r == Legacy_call_comskip(proc, file)
             ended == IF job.present /\ r.comment # ""
                      THEN JobUpdate(running, ERRORED, r.comment) ELSE running
         IN IF quest
            THEN /\ skiplist' = <<>> /\ returned' = TRUE
                 /\ pc' = "lset"
                 /\ UNCHANGED <<job, statusWrites, calls, cutlist, artifactRead,
                                tmpdir, exc>>
            ELSE /\ calls' = Append(calls, Call("comskip", "", <<>>, proc.rc, proc.raised))
                 /\ cutlist' = IF proc.raised = "" THEN file ELSE cutlist
                 /\ artifactRead' = r.read
                 /\ tmpdir' = TemporaryDirectory_exit(ExitPath(proc, r))
                 /\ job' = ended
                 /\ statusWrites' =
                      statusWrites
                          \o (IF job.present THEN <<WriteOf(running)>> ELSE <<>>)
                          \o (IF ended # running THEN <<WriteOf(ended)>> ELSE <<>>)
                 /\ IF r.raised = ""
                    THEN /\ skiplist' = r.skiplist /\ returned' = TRUE
                         /\ pc' = "lset" /\ exc' = exc
                    ELSE /\ pc' = "raised" /\ exc' = r.raised
                         /\ UNCHANGED <<skiplist, returned>>
    /\ UNCHANGED <<args, kind, commmethod, commflagged, torndown, failing,
                   mp3lines, silence, runs, journal>>

\* Recording.set_skiplist of the legacy script: mythutil, the commflagged
\* update, then FINISHED with the number of breaks
Legacy_set_skiplist ==
    /\ pc = "lset" /\ kind = "legacy"
    /\ \E proc \in ProcOutcomes, updOk \in BOOLEAN :
         LET r == Legacy_set_skiplist_calls(skiplist, proc, updOk)
             after == IF ~job.present THEN job
                      ELSE IF r.raised = "" THEN JobUpdate(job, FINISHED, BreaksFound(skiplist))
                      ELSE IF r.comment # "" THEN JobUpdate(job, ERRORED, r.comment)
                      ELSE job
         IN /\ calls' = calls \o r.calls
            /\ commflagged' = (commflagged \/ r.flagged)
            /\ job' = after
            /\ statusWrites' = IF after = job THEN statusWrites
                               ELSE Append(statusWrites, WriteOf(after))
            /\ IF r.raised = ""
               THEN pc' = "done" /\ exc' = exc
               ELSE pc' = "raised" /\ exc' = r.raised
    /\ UNCHANGED <<args, kind, commmethod, skiplist, returned, cutlist,
                   artifactRead, torndown, tmpdir, failing, mp3lines, silence,
                   runs, journal>>

\* Recording.__del__ of the legacy script, run when the process ends
Legacy_del ==
    /\ pc \in {"done", "raised"} /\ kind = "legacy" /\ ~torndown
    /\ torndown' = TRUE
    /\ IF Legacy_NeedsTeardown(job)
       THEN LET forced == Legacy_TeardownUpdate(job)
            IN /\ job' = forced
               /\ statusWrites' = Append(statusWrites, WriteOf(forced))
       ELSE UNCHANGED <<job, statusWrites>>
    /\ UNCHANGED <<args, pc, kind, commmethod, skiplist, returned, calls, cutlist,
                   artifactRead, commflagged, exc, tmpdir, failing, mp3lines,
                   silence, runs, journal>>

NextLegacy ==
    \/ Legacy_init
    \/ Legacy_get_skiplist
    \/ Legacy_set_skiplist
    \/ Legacy_del

\* The runs of the legacy script
SpecLegacy == InitLegacy /\ [][NextLegacy]_vars

----------------------------------------------------------------------------
(* Two runs of main() on the same recording, as two processes *)

\* The two processes
RunIds == {1, 2}

\* A set_skiplist that hands mythutil one token at a time
MythutilWrites_per_token(sk) ==
    IF sk = <<>> THEN <<SkiplistArgs(sk)>>
    ELSE [k \in 1..Len(sk) |-> SkiplistArgs(<<sk[k]>>)]

\* The mythutil invocations BaseRecording.set_skiplist makes for a skiplist:
\* one, carrying the whole list (or --clearskiplist)
MythutilWrites(sk) == <<SkiplistArgs(sk)>>

\* Both processes have constructed their Recording for the same chanid and
\* starttime, and so read the same policy; nothing in the constructor or in
\* set_skiplist takes a lock
InitTwo ==
    /\ args = [jobid |-> FALSE, chanid |-> TRUE, starttime |-> TRUE, loglevelOk |-> TRUE]
    /\ pc = "two"
    /\ kind = "direct"
    /\ job = [present |-> FALSE, status |-> "QUEUED", comment |-> ""]
    /\ statusWrites = <<>>
    /\ commmethod \in CommMethods
    /\ skiplist = <<>>
    /\ returned = FALSE
    /\ calls = <<>>
    /\ cutlist = NoArtifact
    /\ artifactRead = FALSE
    /\ commflagged \in BOOLEAN
    /\ exc = ""
    /\ torndown = FALSE
    /\ tmpdir = "none"
    /\ failing = {}
    /\ mp3lines = <<>>
    /\ silence = [done |-> FALSE, skiplist |-> <<>>]
    /\ runs = [i \in RunIds |->
                 [pc |-> "get", skiplist |-> <<>>, returned |-> FALSE, pending |-> <<>>]]
    /\ journal = <<>>

\* What run i leaves unchanged of the single-run state
TwoFrame ==
    UNCHANGED <<args, pc, kind, job, statusWrites, commmethod, skiplist, returned,
                calls, cutlist, artifactRead, exc, torndown, tmpdir, failing,
                mp3lines, silence>>

\* Process i: recording.get_skiplist()
Two_get_skiplist(i) ==
    /\ pc = "two" /\ runs[i].pc = "get"
    /\ \E proc \in ProcOutcomes, file \in Artifacts :
         LET r == get_skiplist(commmethod, proc, file)
         IN runs' = [runs EXCEPT ![i] =
                IF r.raised = ""
                THEN [pc |-> "set", skiplist |-> r.skiplist, returned |-> TRUE,
                      pending |-> MythutilWrites(r.skiplist)]
                ELSE [@ EXCEPT !.pc = "raised"]]
    /\ UNCHANGED <<journal, commflagged>>
    /\ TwoFrame

\* Process i: the mythutil child process of set_skiplist and the test of its
\* return code
Two_mythutil(i) ==
    /\ pc = "two" /\ runs[i].pc = "set"
    /\ \E proc \in ProcOutcomes :
         LET a == Head(runs[i].pending)
             c == Call("mythutil", a.op, a.payload, proc.rc, proc.raised)
         IN /\ journal' = Append(journal, [run |-> i, call |-> c])
            /\ runs' = [runs EXCEPT ![i] =
                   IF proc.raised # "" \/ proc.rc # 0
                   THEN [@ EXCEPT !.pc = "raised"]
                   ELSE IF Len(@.pending) > 1
                   THEN [@ EXCEPT !.pending = Tail(@)]
                   ELSE [@ EXCEPT !.pc = "flag", !.pending = <<>>]]
    /\ UNCHANGED commflagged
    /\ TwoFrame

\* Process i: self._recorded.update(commflagged=True), the end of set_skiplist
Two_update(i) ==
    /\ pc = "two" /\ runs[i].pc = "flag"
    /\ \E updOk \in BOOLEAN :
         LET c == Call("Recorded", "update", <<>>, 0, IF updOk THEN "" ELSE "MythError")
         IN /\ journal' = Append(journal, [run |-> i, call |-> c])
            /\ commflagged' = (commflagged \/ updOk)
            /\ runs' = [runs EXCEPT ![i].pc = IF updOk THEN "done" ELSE "raised"]
    /\ TwoFrame

NextTwo ==
    \E i \in RunIds :
        \/ Two_get_skiplist(i)
        \/ Two_mythutil(i)
        \/ Two_update(i)

\* The interleavings of the two processes
SpecTwo == InitTwo /\ [][NextTwo]_vars

----------------------------------------------------------------------------
(* Vocabulary of the properties *)

Terminal == {FINISHED, ERRORED}

\* The status writes that wrote a terminal value
TerminalWrites == SelectSeq(statusWrites, LAMBDA w : w.status \in Terminal)

\* The statuses written so far, in order
StatusSeq == [i \in 1..Len(statusWrites) |-> statusWrites[i].status]

\* main() has returned or raised
Ended == pc \in {"done", "raised"}

\* The detector ran to completion with return code rc
DetectorExited(rc) ==
    \E i \in 1..Len(calls) :
        calls[i].name = "comskip" /\ calls[i].raised = "" /\ calls[i].rc = rc

\* The commflagged update was attempted
FlagUpdateAttempted ==
    \E i \in 1..Len(calls) : calls[i].name = "Recorded" /\ calls[i].op = "update"

\* The commflagged update was made
FlagUpdated ==
    \E i \in 1..Len(calls) :
        calls[i].name = "Recorded" /\ calls[i].op = "update" /\ calls[i].raised = ""

\* Number of "start-end" tokens in a mythutil payload
RECURSIVE Commas(_)
Commas(s) ==
    IF s = <<>> THEN 0 ELSE (IF Head(s) = "," THEN 1 ELSE 0) + Commas(Tail(s))

TokenCount(payload) == IF payload = <<>> THEN 0 ELSE 1 + Commas(payload)

----------------------------------------------------------------------------
(* Properties *)

\* C1: in a job-driven run the job status is written to a terminal value
\* (FINISHED or ERRORED) exactly once before the process ends: at most once at
\* any time, no status write follows the terminal one, and once the finalizer
\* has run exactly one terminal write has been made.
C1_TerminalExactlyOnce ==
    job.present =>
        /\ Len(TerminalWrites) <= 1
        /\ (Len(TerminalWrites) = 1 =>
              statusWrites[Len(statusWrites)].status \in Terminal)
        /\ (torndown => Len(TerminalWrites) = 1 /\ job.status \in Terminal)

\* C1 witness: a run whose recording could not be resolved has ended and been
\* torn down with its single terminal write
C1_Witness ==
    /\ job.present /\ torndown /\ exc = "MythError"
    /\ Len(TerminalWrites) = 1 /\ job.status = ERRORED

\* C2: when the finalizer runs while the job status is neither FINISHED nor
\* ERRORED it forces the status to ERRORED with the comment "Destructor
\* called"; when the status is already terminal it writes nothing.
C2_SafetyNet ==
    [][(~torndown /\ torndown' /\ job.present) =>
         IF job.status \notin {FINISHED, ERRORED}
         THEN /\ job'.status = ERRORED
              /\ job'.comment = "Destructor called"
              /\ statusWrites' = Append(statusWrites,
                    [status |-> ERRORED, comment |-> "Destructor called"])
         ELSE job' = job /\ statusWrites' = statusWrites]_vars

\* C2 witness: the finalizer found the job RUNNING and forced it to ERRORED
C2_Witness ==
    /\ torndown /\ job.status = ERRORED /\ job.comment = "Destructor called"
    /\ Len(statusWrites) = 3 /\ statusWrites[2].status = RUNNING

\* C3: with policy OFF or COMMERCIAL_FREE get_skiplist returns the empty
\* skiplist and invokes no external process (no collaborator at all).
C3_PolicyGate ==
    [][(pc = "get" /\ commmethod \in {COMM_DETECT_OFF, COMM_DETECT_COMMFREE}) =>
         /\ pc' = "set" /\ returned' /\ skiplist' = <<>>
         /\ calls' = calls /\ ~artifactRead']_vars

\* C3 witness: get_skiplist has returned on a commercial-free channel
C3_Witness ==
    /\ pc = "set" /\ returned /\ commmethod = COMM_DETECT_COMMFREE
    /\ kind = "job" /\ job.status = RUNNING

\* C4: when a job is present and main ends with a fatal condition raised by a
\* step, the job controller has recorded ERRORED with a comment by the time the
\* exception leaves main.
C4_FatalRecordedAtController ==
    (job.present /\ pc = "raised" /\ IsException(exc)) =>
        /\ job.status = ERRORED
        /\ job.comment # ""
        /\ statusWrites[Len(statusWrites)].status = ERRORED

\* C5: the job status is FINISHED only when the skiplist has been computed,
\* mythutil has returned 0 and the commflagged flag has been updated; the
\* comment is "<n> break(s) found." with n the number of intervals persisted.
C5_FinishedOnlyAfterPersist ==
    job.status = FINISHED =>
        /\ returned
        /\ Len(CallsOf("mythutil")) = 1
        /\ LET m == CallsOf("mythutil")[1]
           IN /\ m.raised = "" /\ m.rc = 0
              /\ job.comment = ToString(TokenCount(m.payload)) \o " break(s) found."
              /\ TokenCount(m.payload) = Len(skiplist)
        /\ FlagUpdated /\ commflagged

\* C5 witness: a job FINISHED with two breaks
C5_Witness == job.status = FINISHED /\ job.comment = "2 break(s) found."

\* C6: call_comskip reads the detector's return code as: 0, parse the artifact
\* and return its intervals; 1, return the empty skiplist without raising and
\* without reading the artifact; anything else, raise ComskipError and return
\* no skiplist.
C6_ExitCodes ==
    \A rc \in ExitCodes :
        DetectorExited(rc) =>
            IF rc = 0
            THEN cutlist.exists =>
                   /\ returned /\ artifactRead
                   /\ skiplist = ParseLines(cutlist.lines)
            ELSE IF rc = 1
            THEN returned /\ skiplist = <<>> /\ ~artifactRead
            ELSE /\ ~returned /\ ~artifactRead
                 /\ pc = "raised" /\ exc = "ComskipError"

\* C6 witness: the detector was killed by a signal and ComskipError was raised
C6_Witness ==
    /\ \E rc \in ExitCodes : rc < 0 /\ DetectorExited(rc)
    /\ exc = "ComskipError"

\* C7 as stated: job-driven, policy AUTO, detector return code 1: when the
\* run has ended the skiplist is empty, mythutil was given the clear operation
\* and the status writes are STARTING, RUNNING, FINISHED with the comment
\* "0 break(s) found.".
C7_NoBreaksRun ==
    (kind = "job" /\ DetectorExited(1) /\ Ended) =>
        /\ skiplist = <<>>
        /\ Len(CallsOf("mythutil")) = 1
        /\ CallsOf("mythutil")[1].op = "--clearskiplist"
        /\ StatusSeq = <<STARTING, RUNNING, FINISHED>>
        /\ job.comment = "0 break(s) found."

\* C7 amended: job-driven, policy AUTO, detector return code 1: the skiplist
\* is empty, the persistence step gives mythutil the clear operation, and when
\* mythutil returns 0 and the commflagged update succeeds the status writes
\* are exactly STARTING, RUNNING, FINISHED with the comment
\* "0 break(s) found.".
C7_NoBreaksRunPersisted ==
    (kind = "job" /\ DetectorExited(1)) =>
        /\ returned /\ skiplist = <<>>
        /\ ~SkipsDetection(commmethod)
        /\ (Ended =>
              /\ Len(CallsOf("mythutil")) = 1
              /\ CallsOf("mythutil")[1].op = "--clearskiplist"
              /\ CallsOf("mythutil")[1].payload = <<>>)
        /\ (Ended /\ CallsOf("mythutil")[1].raised = ""
                  /\ CallsOf("mythutil")[1].rc = 0 /\ FlagUpdated =>
              /\ pc = "done"
              /\ StatusSeq = <<STARTING, RUNNING, FINISHED>>
              /\ job.comment = "0 break(s) found.")

\* C7 witness: the run with detector return code 1 has finished
C7_Witness ==
    /\ kind = "job" /\ DetectorExited(1) /\ torndown
    /\ StatusSeq = <<STARTING, RUNNING, FINISHED>>

\* C8: job-driven, detector return code 2: ComskipError is raised, the job
\* status is (and stays) ERRORED, main ends with the exception, mythutil is
\* never invoked and the commflagged flag is never set.
C8_DetectorFails ==
    (kind = "job" /\ DetectorExited(2)) =>
        /\ exc = "ComskipError" /\ pc = "raised" /\ ~returned
        /\ job.status = ERRORED
        /\ StatusSeq = <<STARTING, RUNNING, ERRORED>>
        /\ CallsOf("mythutil") = <<>>
        /\ ~FlagUpdateAttempted

\* C8 witness: the run with detector return code 2 has ended and been torn down
C8_Witness ==
    kind = "job" /\ DetectorExited(2) /\ torndown /\ job.status = ERRORED

\* The arguments name exactly one of {job id} or {channel id and start time}
ExactlyOne(a) ==
    \/ a.jobid /\ ~a.chanid /\ ~a.starttime
    \/ ~a.jobid /\ a.chanid /\ a.starttime

\* C9: main accepts the arguments only when exactly one of {job id} or
\* {channel id and start time} is given; with any other combination it fails
\* before any Job or Recorded lookup.
C9_ExactlyOneAccepted ==
    (pc # "main" /\ ~ExactlyOne(args)) => (pc = "raised" /\ calls = <<>>)

\* C10: when the detector returns 0 and the cut-list artifact does not exist,
\* detection raises and returns no skiplist; in a job-driven run the job ends
\* ERRORED; nothing is persisted.
C10_MissingArtifact ==
    (DetectorExited(0) /\ ~cutlist.exists) =>
        /\ ~returned /\ pc = "raised" /\ exc = "FileNotFoundError"
        /\ CallsOf("mythutil") = <<>> /\ ~FlagUpdateAttempted
        /\ (kind = "job" => job.status = ERRORED
                            /\ StatusSeq = <<STARTING, RUNNING, ERRORED>>)

\* C10 witness: a job-driven run whose detector left no artifact has ended
C10_Witness ==
    kind = "job" /\ DetectorExited(0) /\ ~cutlist.exists /\ torndown

\* The Channel lookup of _get_recording raised MythError
ChannelLookupFailed ==
    \E i \in 1..Len(calls) : calls[i].name = "Channel" /\ calls[i].raised = "MythError"

\* The storage group lookup, which follows the Channel lookup, returned
StorageGroupResolved ==
    \E i \in 1..Len(calls) : calls[i].name = "StorageGroup" /\ calls[i].raised = ""

\* C11: when the channel lookup fails, resolution goes on (the storage group
\* lookup is made and, when it succeeds, construction completes), the policy
\* is COMM_DETECT_UNINIT, which the gate treats as AUTO, and the following
\* get_skiplist invokes the detector.
C11_NoChannelMeansAuto ==
    /\ [](ChannelLookupFailed =>
            /\ commmethod = COMM_DETECT_UNINIT
            /\ Len(CallsOf("StorageGroup")) = 1
            /\ (StorageGroupResolved =>
                  /\ pc # "construct"
                  /\ (pc = "raised" => Len(CallsOf("comskip")) = 1)))
    /\ [][(pc = "get" /\ ChannelLookupFailed) =>
            /\ Len(calls') = Len(calls) + 1
            /\ calls'[Len(calls')].name = "comskip"]_vars

\* C11 witness: the detector ran for a recording whose channel is gone
C11_Witness ==
    ChannelLookupFailed /\ Len(CallsOf("comskip")) = 1 /\ returned

\* Index of the first occurrence of sep in s, 0 when there is none
RECURSIVE FirstIndex(_, _, _)
FirstIndex(s, sep, i) ==
    IF i > Len(s) THEN 0 ELSE IF s[i] = sep THEN i ELSE FirstIndex(s, sep, i + 1)

\* s split on every occurrence of the character sep
RECURSIVE SplitOn(_, _)
SplitOn(s, sep) ==
    LET i == FirstIndex(s, sep, 1)
    IN IF i = 0 THEN <<s>>
       ELSE <<SubSeq(s, 1, i - 1)>> \o SplitOn(SubSeq(s, i + 1, Len(s)), sep)

IsNumber(s) == s # <<>> /\ \A i \in 1..Len(s) : s[i] \in Digits

\* tok is a "start-end" token: two numbers with one "-" between them
IsStartEndToken(tok) ==
    LET parts == SplitOn(tok, "-")
    IN Len(parts) = 2 /\ IsNumber(parts[1]) /\ IsNumber(parts[2])

\* C12: set_skiplist sends mythutil the set operation with the skiplist's
\* "start-end" tokens joined by commas in their order when the skiplist is
\* not empty, and the clear operation when (and only when) it is empty; the
\* set operation never has an empty payload.
C12_SetOrClear ==
    \A i \in 1..Len(calls) :
        calls[i].name = "mythutil" =>
            IF skiplist # <<>>
            THEN /\ calls[i].op = "--setskiplist"
                 /\ calls[i].payload # <<>>
                 /\ SplitOn(calls[i].payload, ",") = skiplist
                 /\ \A k \in 1..Len(skiplist) : IsStartEndToken(skiplist[k])
            ELSE /\ calls[i].op = "--clearskiplist"
                 /\ calls[i].payload = <<>>

\* C12 witness: mythutil was given a set operation with two tokens
C12_Witness ==
    \E i \in 1..Len(calls) :
        /\ calls[i].name = "mythutil" /\ calls[i].op = "--setskiplist"
        /\ Len(skiplist) = 2

\* A line that consists of two whitespace-separated non-negative integers
\* (and its line end)
IsPairLine(line) ==
    LET d1 == SpanLen(line, 1, Digits)
        w == SpanLen(line, d1 + 1, Whitespace)
        d2 == SpanLen(line, d1 + w + 1, Digits)
        rest == SpanLen(line, d1 + w + d2 + 1, Whitespace)
    IN d1 >= 1 /\ w >= 1 /\ d2 >= 1 /\ d1 + w + d2 + rest = Len(line)

\* The "start-end" tokens of the pair lines of a file, in file order
RECURSIVE PairLineTokens(_)
PairLineTokens(lines) ==
    IF lines = <<>> THEN <<>>
    ELSE LET line == Head(lines)
             d1 == SpanLen(line, 1, Digits)
             w == SpanLen(line, d1 + 1, Whitespace)
             d2 == SpanLen(line, d1 + w + 1, Digits)
         IN (IF IsPairLine(line)
             THEN <<SubSeq(line, 1, d1) \o <<"-">>
                      \o SubSeq(line, d1 + w + 1, d1 + w + d2)>>
             ELSE <<>>) \o PairLineTokens(Tail(lines))

\* C13: the cut-list parser returns exactly one interval per line that
\* consists of two whitespace-separated non-negative integers, in file order;
\* every other line is ignored without error, and a file with no such line
\* gives the empty list.
C13_ParserShape ==
    (DetectorExited(0) /\ cutlist.exists) =>
        /\ returned
        /\ skiplist = PairLineTokens(cutlist.lines)

\* Value of a number written in decimal digits
DigitValue(c) ==
    CASE c = "0" -> 0 [] c = "1" -> 1 [] c = "2" -> 2 [] c = "3" -> 3 [] c = "4" -> 4
      [] c = "5" -> 5 [] c = "6" -> 6 [] c = "7" -> 7 [] c = "8" -> 8 [] c = "9" -> 9

RECURSIVE NumberValue(_)
NumberValue(s) ==
    IF s = <<>> THEN 0
    ELSE 10 * NumberValue(SubSeq(s, 1, Len(s) - 1)) + DigitValue(s[Len(s)])

\* The frame interval a "start-end" token stands for
FrameInterval(tok) ==
    LET parts == SplitOn(tok, "-")
    IN [start |-> NumberValue(parts[1]), end |-> NumberValue(parts[2])]

\* C14: every skiplist detection returns is ordered by ascending start_frame
\* and its intervals are pairwise disjoint.
C14_OrderedDisjoint ==
    returned =>
        \A i \in 1..Len(skiplist), k \in 1..Len(skiplist) :
            i < k =>
                /\ FrameInterval(skiplist[i]).start <= FrameInterval(skiplist[k]).start
                /\ FrameInterval(skiplist[i]).end < FrameInterval(skiplist[k]).start

\* The intervals (start, end), as written, of the lines the parser matched
RECURSIVE MatchedIntervals(_)
MatchedIntervals(lines) ==
    IF lines = <<>> THEN <<>>
    ELSE LET m == skiplist_re(Head(lines))
         IN (IF m.matched THEN <<<<m.g1, m.g2>>>> ELSE <<>>)
            \o MatchedIntervals(Tail(lines))

\* A persisted string read back: split on "," and each piece on "-"
DecodePayload(payload) ==
    LET toks == SplitOn(payload, ",")
    IN [i \in 1..Len(toks) |-> SplitOn(toks[i], "-")]

\* C20: the string set_skiplist persists, split again on "," and "-", gives
\* back the intervals detection found, in the same order.
C20_RoundTrip ==
    \A i \in 1..Len(calls) :
        (calls[i].name = "mythutil" /\ calls[i].op = "--setskiplist") =>
            DecodePayload(calls[i].payload) = MatchedIntervals(cutlist.lines)

\* C20 witness: two intervals were persisted and decode to the two found
C20_Witness ==
    \E i \in 1..Len(calls) :
        /\ calls[i].name = "mythutil" /\ calls[i].op = "--setskiplist"
        /\ DecodePayload(calls[i].payload) = << <<<<"3", "0">>, <<"4">>>>, <<<<"1">>, <<"2">>>> >>

\* C15: the temporary directory created by call_comskip no longer exists when
\* control returns to the caller, on every exit path: return code 0 with a
\* parsed artifact, return code 1, ComskipError, a missing artifact and any
\* other exception; no directory exists before the detector is invoked.
C15_TmpdirRemoved ==
    /\ tmpdir # "exists"
    /\ (Len(CallsOf("comskip")) > 0 => tmpdir = "removed")
    /\ (Len(CallsOf("comskip")) = 0 => tmpdir = "none")

\* C15 witness: the detector returned 0, the artifact was missing, and the
\* directory is gone once FileNotFoundError has left call_comskip
C15_Witness ==
    /\ DetectorExited(0) /\ exc = "FileNotFoundError" /\ ~artifactRead
    /\ tmpdir = "removed"

\* C16: in a run driven by channel id and start time, no job-tracking-store
\* read or write happens in any step or on any error path, and what
\* resolution, detection or persistence raised is what main() ends with.
C16_DirectRun ==
    (~args.jobid /\ pc # "main") =>
        /\ CallsOf("Job") = <<>> /\ statusWrites = <<>>
        /\ ~job.present /\ job.status = "QUEUED"
        /\ (pc = "raised" /\ calls # <<>> =>
              LET c == calls[Len(calls)]
              IN IF c.raised # "" THEN exc = c.raised
                 ELSE IF c.name = "comskip"
                 THEN exc = IF c.rc = 0 THEN "FileNotFoundError" ELSE "ComskipError"
                 ELSE c.name = "mythutil" /\ c.rc # 0 /\ exc = "Exception")

\* C16 witness: a direct run whose detector failed ended with ComskipError
C16_Witness ==
    /\ ~args.jobid /\ kind = "direct" /\ pc = "raised" /\ exc = "ComskipError"
    /\ statusWrites = <<>>

\* C17: a failing job status update does not alter the flow: main() never
\* ends with the update's exception, the recording is resolved once the job
\* was found, and detection is followed by persistence as when every update
\* succeeds.
C17_UpdateBestEffort ==
    /\ exc # UpdateError
    /\ (job.present /\ Ended => Len(CallsOf("Recorded")) >= 1)
    /\ (kind = "job" /\ pc = "done" => job.status = FINISHED)

\* The candidates (0,10,10), (5,20,15), (500,510,10) of the log, in that order
ExampleLog == << <<0, 1000, 1000>>, <<500, 2000, 1500>>, <<50000, 51000, 1000>> >>

\* The silence detector returned a skiplist
SilenceDone == kind = "legacy" /\ silence.done

\* C18: the reducer with threshold 400 turns the candidates (0,10,10),
\* (5,20,15), (500,510,10) into two groups, [0,20) and [500,510); in general
\* every group of candidates, the last one included, appears in the output.
C18_AllGroupsEmitted ==
    SilenceDone =>
        LET r == SilenceReduce(mp3lines)
            out == silence.skiplist
        IN /\ (mp3lines = ExampleLog =>
                  out = <<SilenceToken(0, 2000), SilenceToken(50000, 51000)>>)
           /\ (filtered_mp3lines(mp3lines) # <<>> =>
                  /\ out # <<>>
                  /\ out[Len(out)] = SilenceToken(r.start, r.finish))

\* C19: every merged group (start_s, finish_s) of the silence-detector path is
\* emitted as the frame interval (floor(start_s*fps)+1, floor(finish_s*fps)+1).
C19_FrameFormula ==
    SilenceDone =>
        \A i \in 1..Len(silence.skiplist) :
            \E l \in {0} \cup {mp3lines[k][1] : k \in 1..Len(mp3lines)},
               h \in {0} \cup {mp3lines[k][2] : k \in 1..Len(mp3lines)} :
                silence.skiplist[i] =
                    ToString((l * FPS) \div Centi + 1) \o "-"
                        \o ToString((h * FPS) \div Centi + 1)

\* The candidates of the log in the order the loop visits them
Candidates == sorted_mp3lines(filtered_mp3lines(mp3lines))

\* The start of the group that is open when candidate i of c is visited
RECURSIVE StartBefore(_, _)
StartBefore(c, i) ==
    IF i = 1 THEN 0
    ELSE LET s == StartBefore(c, i - 1)
         IN IF c[i - 1][1] - s < GAP_THRESHOLD * Centi THEN s ELSE c[i - 1][1]

\* The finish of that group: the end of the candidate visited before
FinishBefore(c, i) == IF i = 1 THEN 0 ELSE c[i - 1][2]

\* The candidates that begin 400 s or more past the open group's start
Openers(c) ==
    SelectSeq([i \in 1..Len(c) |-> i],
              LAMBDA i : c[i][1] - StartBefore(c, i) >= GAP_THRESHOLD * Centi)

\* How many of the lines of s equal x
Count(s, x) == Cardinality({k \in 1..Len(s) : s[k] = x})

\* C22: the loop of call_silence_detect visits the matching lines in ascending
\* begin order from the accumulator (0,0); a candidate beginning less than
\* 400 s past the group's start extends its finish, any other makes the loop
\* emit (start, finish) and open a new group; the accumulator left after the
\* last candidate is not emitted, so there are as many emitted intervals as
\* candidates that begin 400 s or more past the open group's start.
C22_ReferenceLoop ==
    SilenceDone =>
        LET c == Candidates
            o == Openers(c)
            out == silence.skiplist
        IN /\ \A x \in SilenceLines :
                 Count(c, x) = IF clre(x) THEN Count(mp3lines, x) ELSE 0
           /\ \A i \in 1..Len(c), j \in 1..Len(c) : i < j => c[i][1] <= c[j][1]
           /\ Len(out) = Len(o)
           /\ \A k \in 1..Len(o) :
                 out[k] = SilenceToken(StartBefore(c, o[k]), FinishBefore(c, o[k]))

\* C22 witness: the three example candidates gave one interval, the group
\* [0,20), and the group [500,510) was left in the accumulator
C22_Witness ==
    /\ SilenceDone /\ mp3lines = ExampleLog
    /\ silence.skiplist = <<"1-475">>

\* C23: every interval the silence detector emits is a pair of non-negative
\* integers with start_frame <= end_frame, for every list of candidates.
C23_FramesOrdered ==
    SilenceDone =>
        \A i \in 1..Len(silence.skiplist) :
            \E l \in {0} \cup {mp3lines[k][1] : k \in 1..Len(mp3lines)},
               h \in {0} \cup {mp3lines[k][2] : k \in 1..Len(mp3lines)} :
                LET a == Trunc(l * FPS + Centi, Centi)
                    b == Trunc(h * FPS - FPS * Centi, Centi)
                IN /\ silence.skiplist[i] = ToString(a) \o "-" \o ToString(b)
                   /\ 0 <= a /\ a <= b

\* C24: (as stated) a job-driven run with policy OFF or COMMERCIAL_FREE whose
\* get_skiplist returned records STARTING, RUNNING, FINISHED.
C24_GatedRunFinishes ==
    (kind = "job" /\ SkipsDetection(commmethod) /\ returned /\ Ended) =>
        StatusSeq = <<STARTING, RUNNING, FINISHED>>

\* C24: in a job-driven run RUNNING is written after STARTING and before the
\* policy gate and any detector invocation, so the detector is invoked only
\* while the job is RUNNING; a run with policy OFF or COMMERCIAL_FREE records
\* STARTING, RUNNING and then FINISHED when persistence succeeds, ERRORED when
\* it does not; no status write moves a job from RUNNING back to STARTING or
\* out of a terminal state.
C24_RunningBeforeDetection ==
    /\ [](kind = "job" =>
            /\ \A i \in 1..Len(StatusSeq), j \in 1..Len(StatusSeq) :
                  i < j => /\ StatusSeq[i] \notin Terminal
                           /\ ~(StatusSeq[i] = RUNNING /\ StatusSeq[j] = STARTING)
            /\ (Len(CallsOf("comskip")) > 0 \/ returned =>
                  /\ Len(StatusSeq) >= 2
                  /\ StatusSeq[1] = STARTING /\ StatusSeq[2] = RUNNING)
            /\ (SkipsDetection(commmethod) /\ returned =>
                  /\ (pc = "done" => StatusSeq = <<STARTING, RUNNING, FINISHED>>)
                  /\ (pc = "done" <=> FlagUpdated)
                  /\ (pc = "raised" /\ torndown =>
                        StatusSeq = <<STARTING, RUNNING, ERRORED>>)))
    /\ [][(kind = "job" /\ pc = "get") =>
            /\ job.status = STARTING
            /\ Len(statusWrites') > Len(statusWrites)
            /\ statusWrites'[Len(statusWrites) + 1].status = RUNNING]_vars

\* C24 witness: a job on a channel with detection off went through RUNNING
\* without any detector call and ended FINISHED
C24_Witness ==
    /\ kind = "job" /\ commmethod = COMM_DETECT_OFF /\ pc = "done"
    /\ CallsOf("comskip") = <<>>
    /\ StatusSeq = <<STARTING, RUNNING, FINISHED>>

\* The positions in the call log of the calls made to the collaborator name
IndicesOf(name) == {i \in 1..Len(calls) : calls[i].name = name}

\* The positions of the lookups made by recording resolution
ResolutionIndices ==
    {i \in 1..Len(calls) :
        /\ calls[i].op \in {"connect", "lookup"}
        /\ calls[i].name \in {"MythDB", "Recorded", "Channel", "StorageGroup"}}

\* C25: in every run the steps occur in the order resolve recording, decide
\* policy, detect, persist; the detector is invoked at most once and the
\* persistence writer at most once, no failed invocation is retried, and the
\* persistence writer is invoked only after detection has returned a skiplist.
C25_StrictSequence ==
    /\ Cardinality(IndicesOf("comskip")) <= 1
    /\ Cardinality(IndicesOf("mythutil")) <= 1
    /\ \A r \in ResolutionIndices, d \in IndicesOf("comskip") : r < d
    /\ \A d \in IndicesOf("comskip"), p \in IndicesOf("mythutil") : d < p
    /\ \A r \in ResolutionIndices, p \in IndicesOf("mythutil") : r < p
    /\ (IndicesOf("comskip") # {} =>
          /\ StorageGroupResolved /\ ~SkipsDetection(commmethod))
    /\ (IndicesOf("mythutil") # {} =>
          /\ StorageGroupResolved /\ returned
          /\ \A d \in IndicesOf("comskip") :
                calls[d].raised = "" /\ calls[d].rc \in {0, 1})
    /\ \A i \in 1..(Len(calls) - 1) :
          /\ (calls[i].raised # "" => calls[i].name = "Channel")
          /\ (calls[i].name = "comskip" => calls[i].rc \in {0, 1})
          /\ (calls[i].name = "mythutil" => calls[i].rc = 0)

\* C25 witness: a run that resolved, detected and persisted, in that order,
\* with one detector call and one mythutil call
C25_Witness ==
    /\ pc = "done" /\ Len(CallsOf("comskip")) = 1 /\ Len(CallsOf("mythutil")) = 1
    /\ \E d \in IndicesOf("comskip") : calls[d + 1].name = "mythutil"

\* C28: the commflagged flag is set to true only after the mythutil skiplist
\* write of the same run has returned 0; when mythutil returns non-zero,
\* set_skiplist raises and leaves the flag unchanged.
C28_FlagAfterWrite ==
    /\ [](\A u \in 1..Len(calls) :
            (calls[u].name = "Recorded" /\ calls[u].op = "update") =>
                /\ u > 1 /\ calls[u - 1].name = "mythutil"
                /\ calls[u - 1].raised = "" /\ calls[u - 1].rc = 0)
    /\ [][commflagged' # commflagged =>
            /\ commflagged' /\ pc = "set"
            /\ Len(calls') = Len(calls) + 2
            /\ calls'[Len(calls) + 1].name = "mythutil"
            /\ calls'[Len(calls) + 1].raised = "" /\ calls'[Len(calls) + 1].rc = 0
            /\ calls'[Len(calls) + 2].raised = ""]_vars
    /\ [][(pc = "set" /\ calls'[Len(calls) + 1].raised = ""
                      /\ calls'[Len(calls) + 1].rc # 0) =>
            /\ pc' = "raised" /\ exc' = "Exception"
            /\ Len(calls') = Len(calls) + 1
            /\ commflagged' = commflagged]_vars

\* C28 witness: mythutil returned non-zero, set_skiplist raised and the flag
\* is still false
C28_Witness ==
    /\ ~commflagged /\ pc = "raised" /\ exc = "Exception"
    /\ Len(CallsOf("mythutil")) = 1 /\ CallsOf("mythutil")[1].rc # 0
    /\ ~FlagUpdateAttempted

\* The remuxer or the splitter completed with a non-zero return code
StepFailed(name) ==
    \E i \in 1..Len(calls) :
        calls[i].name = name /\ calls[i].raised = "" /\ calls[i].rc # 0

\* C26: in the silence-detector path the remuxer runs first and the splitter
\* second; a non-zero remuxer return code raises a fatal error (the job is
\* ERRORED when a job exists) and the splitter is never invoked; a non-zero
\* splitter return code raises a fatal error and its log is never read; no
\* skiplist is returned in either case.
C26_SilenceChain ==
    (kind = "legacy" /\ pc # "silence") =>
        /\ Len(calls) \in {1, 2}
        /\ calls[1].name = "ffmpeg"
        /\ (Len(calls) = 2 =>
              /\ calls[2].name = "mp3splt"
              /\ calls[1].raised = "" /\ calls[1].rc = 0)
        /\ (StepFailed("ffmpeg") =>
              /\ pc = "raised" /\ exc = "Exception"
              /\ CallsOf("mp3splt") = <<>>
              /\ (job.present => job.status = ERRORED /\ job.comment = "ffmpeg failed")
              /\ ~artifactRead /\ ~silence.done /\ silence.skiplist = <<>>)
        /\ (StepFailed("mp3splt") =>
              /\ pc = "raised" /\ exc = "Exception"
              /\ (job.present => job.status = ERRORED /\ job.comment = "mp3splt failed")
              /\ ~artifactRead /\ ~silence.done /\ silence.skiplist = <<>>)
        /\ (silence.done <=> artifactRead)

\* C26 witness: the remuxer failed for a job, which is ERRORED, and the
\* splitter never ran
C26_Witness ==
    /\ kind = "legacy" /\ StepFailed("ffmpeg") /\ job.status = ERRORED
    /\ Len(calls) = 1

\* C27: in the legacy script a job is never left in STARTING or RUNNING when
\* the process ends: when an exception escapes after RUNNING was written
\* without an ERRORED update, teardown moves the job to a terminal state.
C27_LegacyNeverLeftOpen ==
    (kind = "legacy" /\ torndown /\ job.present) => job.status \in Terminal

\* The mythutil invocations that returned 0, in the order they were made
Writes ==
    SelectSeq(journal, LAMBDA e : e.call.name = "mythutil" /\ e.call.raised = ""
                                    /\ e.call.rc = 0)

\* The skiplist the recording holds: what the last completed write gave
Stored == Writes[Len(Writes)].call

\* Both processes have ended
BothEnded == \A i \in RunIds : runs[i].pc \in {"done", "raised"}

\* C21: two runs on the same recording are not mutually excluded; each
\* performs its persistence as one write, and after both have finished the
\* stored skiplist is the skiplist of the run whose write happened last,
\* never a mixture of the two.
C21_LastWriteWins ==
    pc = "two" =>
        /\ \A i \in RunIds :
              Cardinality({k \in 1..Len(journal) :
                  journal[k].run = i /\ journal[k].call.name = "mythutil"}) <= 1
        /\ \A k \in 1..Len(journal) :
              journal[k].call.name = "mythutil" =>
                  LET a == SkiplistArgs(runs[journal[k].run].skiplist)
                  IN /\ runs[journal[k].run].returned
                     /\ journal[k].call.op = a.op
                     /\ journal[k].call.payload = a.payload
        /\ (BothEnded /\ Writes # <<>> =>
              LET last == Writes[Len(Writes)].run
              IN IF runs[last].skiplist = <<>>
                 THEN Stored.op = "--clearskiplist" /\ Stored.payload = <<>>
                 ELSE /\ Stored.op = "--setskiplist"
                      /\ Stored.payload = Join(runs[last].skiplist))

\* C21 witness: run 1 wrote its skiplist, run 2 wrote a different one before
\* run 1 had updated the flag, both ended, and the recording holds run 2's
C21_Witness ==
    /\ pc = "two" /\ BothEnded /\ Len(journal) = 4
    /\ journal[1].run = 1 /\ journal[2].run = 2 /\ journal[3].run = 1
    /\ Len(Writes) = 2
    /\ Len(runs[1].skiplist) = 2 /\ Len(runs[2].skiplist) = 1
    /\ Stored.payload = Join(runs[2].skiplist)
====
